---- MODULE Spec2Model ----
(***************************************************************************)
(* Model of the storefront store of src/src/context/StoreContext.tsx and   *)
(* of the Gateway client of src/src/api.ts.                                *)
(*                                                                         *)
(* The store's React state (products, cart, user, orders, loading) is the  *)
(* client state.  Every asynchronous operation of the store is a record    *)
(* in `ops`: it holds what the callback's closure captured when it was     *)
(* invoked (user, cart), the Gateway call it is suspended on and, once the *)
(* authority has handled the call, the response that is waiting to be      *)
(* delivered.  The authority is the environment: it handles the calls in   *)
(* any order and may fail any of them.                                     *)
(***************************************************************************)
EXTENDS Integers, Sequences, FiniteSets, TLC

\* ---------------------------------------------------------------- bounds
MaxOps == 2         \* asynchronous store operations invoked after bootstrap
MaxQty == 2         \* largest quantity addToCart is driven to
MaxOrders == 3      \* orders the authority holds at most
MaxProductId == 3   \* largest product id the authority assigns

\* ------------------------------------------------------------- constants
GuestId == 0
DevId == 999

NULL == [null |-> TRUE]

VARIABLES
    products,     \* useState<Product[]>
    cart,         \* useState<CartItem[]>
    user,         \* useState<User | null>
    orders,       \* useState<Order[]>
    loading,      \* useState(true)
    ops,          \* suspended asynchronous operations, by invocation number
    nextOp,       \* number of the next invocation; 0 before the effect ran
    lastOutcome,  \* how the operation that completed last ended
    srvProducts,  \* the authority's product records
    srvOrders,    \* the authority's order records
    srvNextProductId,
    tg            \* window.Telegram?.WebApp as the effect finds it

vars == <<products, cart, user, orders, loading, ops, nextOp, lastOutcome,
          srvProducts, srvOrders, srvNextProductId, tg>>

client == <<products, cart, orders>>

\* --------------------------------------------------------------- helpers
Digit == <<"0", "1", "2", "3", "4", "5", "6", "7", "8", "9">>

\* Number.prototype.toString(): the decimal digits of n, most significant first.
RECURSIVE ToStr(_)
ToStr(n) ==
    IF n < 10 THEN <<Digit[n + 1]>>
    ELSE ToStr(n \div 10) \o <<Digit[(n % 10) + 1]>>

Range(s) == {s[i] : i \in 1..Len(s)}

\* a || b on an optional wire field: {} is an absent field, {v} the value v
OrElse(opt, default) == IF opt = {} THEN default ELSE CHOOSE v \in opt : TRUE


\* `a || b` on a wire string: the empty string is falsy, like an absent field
OrFalsy(str, default) == IF str = "" THEN default ELSE str

\* ------------------------------------------------- Entity normalisation
\* StoreContext.tsx 96-104: wire product -> Product
NormalizeProduct(p) == [id |-> ToStr(p.id), price |-> p.price]

\* StoreContext.tsx 41-49: wire order -> Order
NormalizeOrder(o) ==
    [id          |-> ToStr(o.id),
     userId      |-> OrFalsy(o.username, "unknown"),
     username    |-> OrFalsy(o.username, "unknown"),
     items       |-> OrElse(o.items, <<>>),
     totalAmount |-> o.total_amount,
     status      |-> o.status]

NormalizeOrders(ordersData) == [i \in 1..Len(ordersData) |-> NormalizeOrder(ordersData[i])]

\* StoreContext.tsx 83-90: dbUser -> User
UserData(dbUser) ==
    [id |-> dbUser.id, username |-> dbUser.username, isAdmin |-> dbUser.is_admin]

GuestUser == [id |-> GuestId, username |-> "guest_user", isAdmin |-> FALSE]
DevUser == [id |-> DevId, username |-> "dev_user", isAdmin |-> FALSE]

\* ------------------------------------------------------- cart updaters
\* addToCart without the lookup of an existing entry
AddToCartAlwaysAppends(prev, product) ==
    Append(prev, [id |-> product.id, price |-> product.price, quantity |-> 1])

\* addToCart's state updater
AddToCartUpdater(prev, product) ==
    IF \E i \in 1..Len(prev) : prev[i].id = product.id
    THEN [i \in 1..Len(prev) |->
            IF prev[i].id = product.id
            THEN [prev[i] EXCEPT !.quantity = prev[i].quantity + 1]
            ELSE prev[i]]
    ELSE Append(prev, [id |-> product.id, price |-> product.price, quantity |-> 1])

\* removeFromCart's state updater
RemoveFromCartUpdater(prev, productId) ==
    SelectSeq(prev, LAMBDA item : item.id /= productId)

\* cart.reduce((sum, item) => sum + item.price * item.quantity, 0)
RECURSIVE CartTotal(_)
CartTotal(c) ==
    IF c = <<>> THEN 0
    ELSE CartTotal(SubSeq(c, 1, Len(c) - 1)) + c[Len(c)].price * c[Len(c)].quantity

\* --------------------------------------------- catalog / order updaters
\* addProduct putting the created product at the end of the catalog
AddProductAppends(prev, dbProduct) == prev \o <<NormalizeProduct(dbProduct)>>

\* addProduct's state updater: the created record, normalised, goes first
AddProductUpdater(prev, dbProduct) == <<NormalizeProduct(dbProduct)>> \o prev

\* removeProduct's state updater
RemoveProductUpdater(prev, productId) ==
    SelectSeq(prev, LAMBDA p : p.id /= productId)

\* placeOrder's newOrder
NewOrder(dbOrder, capturedUser, capturedCart, total) ==
    [id          |-> ToStr(dbOrder.id),
     userId      |-> capturedUser.username,
     username    |-> capturedUser.username,
     items       |-> capturedCart,
     totalAmount |-> total,
     status      |-> "PENDING"]

\* placeOrder adding the new order at the end of the list
PlaceOrderAppends(prev, newOrder) == prev \o <<newOrder>>

\* placeOrder's setOrders updater
PlaceOrderUpdater(prev, newOrder) == <<newOrder>> \o prev

\* processOrder: the status written for `approved`
StatusFor(approved) == IF approved THEN "CONFIRMED" ELSE "CANCELED"

\* processOrder rebuilding the targeted order without its item snapshot
ProcessOrderDropsItems(prevOrders, orderId, approved) ==
    [i \in 1..Len(prevOrders) |->
        IF prevOrders[i].id /= orderId THEN prevOrders[i]
        ELSE [prevOrders[i] EXCEPT !.status = StatusFor(approved), !.items = <<>>]]


\* processOrder's setOrders updater
ProcessOrderUpdater(prevOrders, orderId, approved) ==
    [i \in 1..Len(prevOrders) |->
        IF prevOrders[i].id /= orderId THEN prevOrders[i]
        ELSE [prevOrders[i] EXCEPT !.status = StatusFor(approved)]]

\* processOrder removing the order's products whatever `approved` is
ItemIdsToRemoveAlways(prevOrders, orderId, approved) ==
    UNION {{prevOrders[i].items[j].id : j \in 1..Len(prevOrders[i].items)} :
                i \in {n \in 1..Len(prevOrders) : prevOrders[n].id = orderId}}

\* processOrder: the ids its setProducts calls filter out, one call per
\* order of prevOrders whose id is orderId, and only when approved
ItemIdsToRemove(prevOrders, orderId, approved) ==
    IF ~approved THEN {}
    ELSE UNION {{prevOrders[i].items[j].id : j \in 1..Len(prevOrders[i].items)} :
                    i \in {n \in 1..Len(prevOrders) : prevOrders[n].id = orderId}}

\* processOrder's setProducts updater(s)
ProcessProductsUpdater(prevProds, prevOrders, orderId, approved) ==
    SelectSeq(prevProds,
              LAMBDA p : p.id \notin ItemIdsToRemove(prevOrders, orderId, approved))

\* ------------------------------------------------------------ inputs
\* the products the UI hands to addToCart
Featured == [id |-> ToStr(1), price |-> 10]
Shelf == {Featured, [id |-> ToStr(2), price |-> 5]}

\* the product an admin submits to addProduct: it carries an id of its own
Submitted == [id |-> <<"t", "m", "p">>, price |-> 7]

\* the orders the UI hands to processOrder: a listed order, or order 1
ProcessTargets == {orders[i].id : i \in 1..Len(orders)} \cup {ToStr(1)}

\* --------------------------------------------------------- the authority
\* the display name the authority stores for a user id ("" when it has none)
SrvUserName(uid) == IF uid = 1 THEN "alice" ELSE IF uid = 2 THEN "bob" ELSE ""

\* the orders the authority starts with: one of bob (the admin) with an item,
\* and one of alice whose record lacks username and items
BobOrder ==
    [id |-> 1, user_id |-> 2, username |-> "bob",
     items |-> {<<[id |-> ToStr(1), price |-> 10, quantity |-> 1]>>},
     total_amount |-> 10, status |-> "PENDING"]
LegacyOrder ==
    [id |-> 2, user_id |-> 1, username |-> "", items |-> {},
     total_amount |-> 0, status |-> "PENDING"]

InitialOrders == <<LegacyOrder, BobOrder>>
InitialProducts == <<[id |-> 1, price |-> 10], [id |-> 2, price |-> 5]>>

Fail == [ok |-> FALSE]
Ok(body) == [ok |-> TRUE, body |-> body]

\* GET /orders/user/:id
SrvUserOrders(uid) == SelectSeq(srvOrders, LAMBDA o : o.user_id = uid)

\* POST /orders: the created record
SrvCreatedOrder(uid, items, total) ==
    [id |-> Len(srvOrders) + 1, user_id |-> uid, username |-> SrvUserName(uid),
     items |-> {items}, total_amount |-> total, status |-> "PENDING"]

\* PATCH /orders/:id: a request on a terminal order is acknowledged and ignored
SrvUpdateStatus(orderId, status) ==
    [i \in 1..Len(srvOrders) |->
        IF ToStr(srvOrders[i].id) = orderId /\ srvOrders[i].status = "PENDING"
        THEN [srvOrders[i] EXCEPT !.status = status]
        ELSE srvOrders[i]]

\* POST /products: the created record
SrvCreatedProduct(product) == [id |-> srvNextProductId, price |-> product.price]

\* ----------------------------------------------------------------- state
NoOps == [k \in {} |-> NULL]

\* a suspended operation: what its closure captured, the Gateway call it
\* awaits (phase) and the response once the authority has produced one
Op(kind, phase, u, c, product, targetId, approved) ==
    [kind |-> kind, phase |-> phase, user |-> u, cart |-> c,
     total |-> CartTotal(c), product |-> product, targetId |-> targetId,
     approved |-> approved, resp |-> NULL]

Start(op) == ops' = [k \in DOMAIN ops \cup {nextOp} |-> IF k = nextOp THEN op ELSE ops[k]]
Finish(k) == ops' = [j \in DOMAIN ops \ {k} |-> ops[j]]
Await(k, phase, u) ==
    ops' = [ops EXCEPT ![k] = [@ EXCEPT !.phase = phase, !.user = u, !.resp = NULL]]

Outcome(kind, result) == [op |-> kind, result |-> result]

\* loadOrders with the branches on isAdmin exchanged
ListCallSwapped(u) == IF u.isAdmin THEN "getUserOrders" ELSE "getAllOrders"

\* loadOrders: the list call it issues for (userId, isAdmin)
ListCall(u) == IF u.isAdmin THEN "getAllOrders" ELSE "getUserOrders"
IsListCall(phase) == phase \in {"getAllOrders", "getUserOrders"}

\* the identities the host environment can supply (tg.initDataUnsafe.user)
HostUsers == {[id |-> 1, username |-> "alice"], [id |-> 2, username |-> "bob"]}

\* window.Telegram?.WebApp: absent, or a WebApp whose initDataUnsafe has a
\* user or none
WebApp(tgUser) == [user |-> tgUser]
HostEnvironments == {NULL, WebApp(NULL)} \cup {WebApp(u) : u \in HostUsers}

Init ==
    /\ products = <<>>
    /\ cart = <<>>
    /\ user = NULL
    /\ orders = <<>>
    /\ loading = TRUE
    /\ ops = NoOps
    /\ nextOp = 0
    /\ lastOutcome = Outcome("none", "none")
    /\ srvProducts = InitialProducts
    /\ srvOrders = InitialOrders
    /\ srvNextProductId = Len(InitialProducts) + 1
    /\ tg \in HostEnvironments

srv == <<srvProducts, srvOrders, srvNextProductId>>

\* ------------------------------------------------------------ bootstrap
ADMIN_TELEGRAM_USERNAME == "bob"

\* initializeApp, no Telegram WebApp: development fallback
InitDev ==
    /\ nextOp = 0
    /\ tg = NULL
    /\ user' = DevUser
    /\ loading' = FALSE
    /\ nextOp' = 1
    /\ lastOutcome' = Outcome("initializeApp", "returned")
    /\ UNCHANGED <<tg, products, cart, orders, ops, srv>>

\* the guest fallback going on to load the catalog
InitGuestLoadsCatalog ==
    /\ nextOp = 0
    /\ tg /= NULL /\ tg.user = NULL
    /\ user' = GuestUser
    /\ Start(Op("initializeApp", "getProducts", GuestUser, <<>>, NULL, <<>>, FALSE))
    /\ nextOp' = 1
    /\ UNCHANGED <<tg, products, cart, orders, loading, lastOutcome, srv>>

\* initializeApp, WebApp without a user: guest fallback
InitGuest ==
    /\ nextOp = 0
    /\ tg /= NULL /\ tg.user = NULL
    /\ user' = GuestUser
    /\ loading' = FALSE
    /\ nextOp' = 1
    /\ lastOutcome' = Outcome("initializeApp", "returned")
    /\ UNCHANGED <<tg, products, cart, orders, ops, srv>>

\* initializeApp with a host user: suspended on api.getOrCreateUser
InitHost ==
    /\ nextOp = 0
    /\ tg /= NULL /\ tg.user /= NULL
    /\ \E tgUser \in {tg.user} :
          Start(Op("initializeApp", "getOrCreateUser",
                   [id |-> tgUser.id, username |-> tgUser.username,
                    isAdmin |-> (tgUser.username = ADMIN_TELEGRAM_USERNAME)],
                   <<>>, NULL, <<>>, FALSE))
    /\ nextOp' = 1
    /\ UNCHANGED <<tg, products, cart, user, orders, loading, lastOutcome, srv>>

Suspended(k, kind, phases) ==
    /\ k \in DOMAIN ops
    /\ ops[k].kind = kind
    /\ ops[k].phase \in phases
    /\ ops[k].resp /= NULL

\* getOrCreateUser resolved: setUser(userData), then api.getProducts()
InitUserOk(k) ==
    /\ Suspended(k, "initializeApp", {"getOrCreateUser"})
    /\ ops[k].resp.ok
    /\ user' = UserData(ops[k].resp.body)
    /\ Await(k, "getProducts", UserData(ops[k].resp.body))
    /\ UNCHANGED <<tg, products, cart, orders, loading, nextOp, lastOutcome, srv>>

\* getProducts resolved: setProducts(...), then loadOrders(dbUser.id, dbUser.is_admin)
InitProductsOk(k) ==
    /\ Suspended(k, "initializeApp", {"getProducts"})
    /\ ops[k].resp.ok
    /\ products' = [i \in 1..Len(ops[k].resp.body) |-> NormalizeProduct(ops[k].resp.body[i])]
    /\ Await(k, ListCall(ops[k].user), ops[k].user)
    /\ UNCHANGED <<tg, cart, user, orders, loading, nextOp, lastOutcome, srv>>

\* a catch block that returns from initializeApp before setLoading(false)
InitFailedKeepsLoading(k) ==
    /\ Suspended(k, "initializeApp", {"getOrCreateUser", "getProducts"})
    /\ ~ops[k].resp.ok
    /\ user' = GuestUser
    /\ Finish(k)
    /\ lastOutcome' = Outcome("initializeApp", "returned")
    /\ UNCHANGED <<tg, products, cart, orders, loading, nextOp, srv>>

\* getOrCreateUser or getProducts rejected: catch, guest fallback, setLoading(false)
InitFailed(k) ==
    /\ Suspended(k, "initializeApp", {"getOrCreateUser", "getProducts"})
    /\ ~ops[k].resp.ok
    /\ user' = GuestUser
    /\ loading' = FALSE
    /\ Finish(k)
    /\ lastOutcome' = Outcome("initializeApp", "returned")
    /\ UNCHANGED <<tg, products, cart, orders, nextOp, srv>>

\* loadOrders emptying the list when the call failed
LoadOrdersClearsOnFailure(k) ==
    orders' = IF ops[k].resp.ok THEN NormalizeOrders(ops[k].resp.body) ELSE <<>>

\* loadOrders: setOrders on success, the failure is logged and swallowed
LoadOrdersApply(k) ==
    orders' = IF ops[k].resp.ok THEN NormalizeOrders(ops[k].resp.body) ELSE orders

\* loadOrders of the bootstrap settled, then setLoading(false)
InitOrdersDone(k) ==
    /\ Suspended(k, "initializeApp", {"getAllOrders", "getUserOrders"})
    /\ LoadOrdersApply(k)
    /\ loading' = FALSE
    /\ Finish(k)
    /\ lastOutcome' = Outcome("initializeApp", "returned")
    /\ UNCHANGED <<tg, products, cart, user, nextOp, srv>>

\* ------------------------------------------------------- cart operations
Mounted == nextOp >= 1

addToCart(product) ==
    /\ Mounted
    /\ \A i \in 1..Len(cart) : cart[i].id = product.id => cart[i].quantity < MaxQty
    /\ cart' = AddToCartUpdater(cart, product)
    /\ UNCHANGED <<tg, products, user, orders, loading, ops, nextOp, lastOutcome, srv>>

removeFromCart(productId) ==
    /\ Mounted
    /\ cart' = RemoveFromCartUpdater(cart, productId)
    /\ UNCHANGED <<tg, products, user, orders, loading, ops, nextOp, lastOutcome, srv>>

clearCart ==
    /\ Mounted
    /\ cart' = <<>>
    /\ UNCHANGED <<tg, products, user, orders, loading, ops, nextOp, lastOutcome, srv>>

\* --------------------------------------------------- catalog operations
CanInvoke == Mounted /\ nextOp <= MaxOps

\* addProduct with an optimistic local insert at invocation
addProductOptimistic(product) ==
    /\ CanInvoke
    /\ Start(Op("addProduct", "addProduct", NULL, <<>>, product, <<>>, FALSE))
    /\ nextOp' = nextOp + 1
    /\ products' = <<product>> \o products
    /\ UNCHANGED <<tg, cart, user, orders, loading, lastOutcome, srv>>

\* addProduct: suspended on api.addProduct
addProduct(product) ==
    /\ CanInvoke
    /\ Start(Op("addProduct", "addProduct", NULL, <<>>, product, <<>>, FALSE))
    /\ nextOp' = nextOp + 1
    /\ UNCHANGED <<tg, products, cart, user, orders, loading, lastOutcome, srv>>

AddProductOk(k) ==
    /\ Suspended(k, "addProduct", {"addProduct"})
    /\ ops[k].resp.ok
    /\ products' = AddProductUpdater(products, ops[k].resp.body)
    /\ Finish(k)
    /\ lastOutcome' = Outcome("addProduct", "returned")
    /\ UNCHANGED <<tg, cart, user, orders, loading, nextOp, srv>>

\* removeProduct: suspended on api.deleteProduct
removeProduct(productId) ==
    /\ CanInvoke
    /\ Start(Op("removeProduct", "deleteProduct", NULL, <<>>, NULL, productId, FALSE))
    /\ nextOp' = nextOp + 1
    /\ UNCHANGED <<tg, products, cart, user, orders, loading, lastOutcome, srv>>

RemoveProductOk(k) ==
    /\ Suspended(k, "removeProduct", {"deleteProduct"})
    /\ ops[k].resp.ok
    /\ products' = RemoveProductUpdater(products, ops[k].targetId)
    /\ Finish(k)
    /\ lastOutcome' = Outcome("removeProduct", "returned")
    /\ UNCHANGED <<tg, cart, user, orders, loading, nextOp, srv>>

\* a catch block that logs the error and does not rethrow it
MutationFailedSwallowed(k) ==
    /\ k \in DOMAIN ops
    /\ ops[k].phase \in {"addProduct", "deleteProduct", "createOrder", "updateOrderStatus"}
    /\ ops[k].resp /= NULL
    /\ ~ops[k].resp.ok
    /\ Finish(k)
    /\ lastOutcome' = Outcome(ops[k].kind, "returned")
    /\ UNCHANGED <<tg, products, cart, user, orders, loading, nextOp, srv>>

\* a catch block that clears the cart before it rethrows
MutationFailedClearsCart(k) ==
    /\ k \in DOMAIN ops
    /\ ops[k].phase \in {"addProduct", "deleteProduct", "createOrder", "updateOrderStatus"}
    /\ ops[k].resp /= NULL
    /\ ~ops[k].resp.ok
    /\ Finish(k)
    /\ cart' = <<>>
    /\ lastOutcome' = Outcome(ops[k].kind, "thrown")
    /\ UNCHANGED <<tg, products, user, orders, loading, nextOp, srv>>

\* the catch blocks of addProduct, removeProduct, placeOrder and processOrder:
\* the mutation call rejected, the error is logged and rethrown
MutationFailed(k) ==
    /\ k \in DOMAIN ops
    /\ ops[k].kind \in {"addProduct", "removeProduct", "placeOrder", "processOrder"}
    /\ ops[k].phase \in {"addProduct", "deleteProduct", "createOrder", "updateOrderStatus"}
    /\ ops[k].resp /= NULL
    /\ ~ops[k].resp.ok
    /\ Finish(k)
    /\ lastOutcome' = Outcome(ops[k].kind, "thrown")
    /\ UNCHANGED <<tg, products, cart, user, orders, loading, nextOp, srv>>

\* ----------------------------------------------------- order operations
\* an operation that completes without calling refreshOrders
RefreshOrdersSkipped(k, u) ==
    /\ Finish(k)
    /\ lastOutcome' = Outcome(ops[k].kind, "returned")


\* refreshOrders as the closure that captured u runs it: loadOrders when a
\* user is captured, nothing otherwise
RefreshOrders(k, u) ==
    IF u /= NULL
    THEN /\ Await(k, ListCall(u), u)
         /\ UNCHANGED lastOutcome
    ELSE /\ Finish(k)
         /\ lastOutcome' = Outcome(ops[k].kind, "returned")

\* refreshOrders invoked by the UI
refreshOrders ==
    /\ CanInvoke
    /\ nextOp' = nextOp + 1
    /\ IF user /= NULL
       THEN /\ Start(Op("refreshOrders", ListCall(user), user, <<>>, NULL, <<>>, FALSE))
            /\ UNCHANGED lastOutcome
       ELSE /\ lastOutcome' = Outcome("refreshOrders", "returned")
            /\ UNCHANGED ops
    /\ UNCHANGED <<tg, products, cart, user, orders, loading, srv>>

\* placeOrder without the check for an empty cart
placeOrderOfEmptyCart ==
    /\ CanInvoke
    /\ nextOp' = nextOp + 1
    /\ IF user = NULL
       THEN /\ lastOutcome' = Outcome("placeOrder", "returned")
            /\ UNCHANGED ops
       ELSE /\ Start(Op("placeOrder", "createOrder", user, cart, NULL, <<>>, FALSE))
            /\ UNCHANGED lastOutcome
    /\ UNCHANGED <<tg, products, cart, user, orders, loading, srv>>

\* placeOrder: returns at once without a user or with an empty cart, else
\* computes the total and is suspended on api.createOrder(user.id, cart, total)
placeOrder ==
    /\ CanInvoke
    /\ nextOp' = nextOp + 1
    /\ IF user = NULL \/ Len(cart) = 0
       THEN /\ lastOutcome' = Outcome("placeOrder", "returned")
            /\ UNCHANGED ops
       ELSE /\ Start(Op("placeOrder", "createOrder", user, cart, NULL, <<>>, FALSE))
            /\ UNCHANGED lastOutcome
    /\ UNCHANGED <<tg, products, cart, user, orders, loading, srv>>

\* createOrder resolved: prepend newOrder, clear the cart, await refreshOrders()
PlaceOrderCreated(k) ==
    /\ Suspended(k, "placeOrder", {"createOrder"})
    /\ ops[k].resp.ok
    /\ orders' = PlaceOrderUpdater(orders,
                    NewOrder(ops[k].resp.body, ops[k].user, ops[k].cart, ops[k].total))
    /\ cart' = <<>>
    /\ RefreshOrders(k, ops[k].user)
    /\ UNCHANGED <<tg, products, user, loading, nextOp, srv>>

\* processOrder: suspended on api.updateOrderStatus(orderId, status); the
\* refreshOrders it will await is the one that captured the current user
processOrder(orderId, approved) ==
    /\ CanInvoke
    /\ Start(Op("processOrder", "updateOrderStatus", user, <<>>, NULL, orderId, approved))
    /\ nextOp' = nextOp + 1
    /\ UNCHANGED <<tg, products, cart, user, orders, loading, lastOutcome, srv>>

\* updateOrderStatus resolved: set the status, drop the approved order's
\* products, await refreshOrders()
ProcessOrderUpdated(k) ==
    /\ Suspended(k, "processOrder", {"updateOrderStatus"})
    /\ ops[k].resp.ok
    /\ orders' = ProcessOrderUpdater(orders, ops[k].targetId, ops[k].approved)
    /\ products' = ProcessProductsUpdater(products, orders, ops[k].targetId, ops[k].approved)
    /\ RefreshOrders(k, ops[k].user)
    /\ UNCHANGED <<tg, cart, user, loading, nextOp, srv>>

\* loadOrders of a refresh settled (success or swallowed failure): the awaiting
\* placeOrder, processOrder or refreshOrders completes normally
RefreshDone(k) ==
    /\ Suspended(k, ops[k].kind, {"getAllOrders", "getUserOrders"})
    /\ ops[k].kind \in {"placeOrder", "processOrder", "refreshOrders"}
    /\ LoadOrdersApply(k)
    /\ Finish(k)
    /\ lastOutcome' = Outcome(ops[k].kind, "returned")
    /\ UNCHANGED <<tg, products, cart, user, loading, nextOp, srv>>

\* ------------------------------------------- the authority handles calls
Pending(k) == k \in DOMAIN ops /\ ops[k].resp = NULL

Respond(k, resp) == ops' = [ops EXCEPT ![k] = [@ EXCEPT !.resp = resp]]

\* any call may be rejected (fetch fails or response.ok is false)
SrvReject(k) ==
    /\ Pending(k)
    /\ Respond(k, Fail)
    /\ UNCHANGED <<tg, products, cart, user, orders, loading, nextOp, lastOutcome, srv>>

SrvGetOrCreateUser(k) ==
    /\ Pending(k) /\ ops[k].phase = "getOrCreateUser"
    /\ Respond(k, Ok([id |-> ops[k].user.id, username |-> ops[k].user.username,
                      is_admin |-> ops[k].user.isAdmin]))
    /\ UNCHANGED <<tg, products, cart, user, orders, loading, nextOp, lastOutcome, srv>>

SrvGetProducts(k) ==
    /\ Pending(k) /\ ops[k].phase = "getProducts"
    /\ Respond(k, Ok(srvProducts))
    /\ UNCHANGED <<tg, products, cart, user, orders, loading, nextOp, lastOutcome, srv>>

SrvAddProduct(k) ==
    /\ Pending(k) /\ ops[k].phase = "addProduct"
    /\ srvNextProductId <= MaxProductId
    /\ Respond(k, Ok(SrvCreatedProduct(ops[k].product)))
    /\ srvProducts' = <<SrvCreatedProduct(ops[k].product)>> \o srvProducts
    /\ srvNextProductId' = srvNextProductId + 1
    /\ UNCHANGED <<tg, products, cart, user, orders, loading, nextOp, lastOutcome, srvOrders>>

SrvDeleteProduct(k) ==
    /\ Pending(k) /\ ops[k].phase = "deleteProduct"
    /\ Respond(k, Ok(TRUE))
    /\ srvProducts' = SelectSeq(srvProducts, LAMBDA p : ToStr(p.id) /= ops[k].targetId)
    /\ UNCHANGED <<tg, products, cart, user, orders, loading, nextOp, lastOutcome,
                   srvOrders, srvNextProductId>>

SrvGetAllOrders(k) ==
    /\ Pending(k) /\ ops[k].phase = "getAllOrders"
    /\ Respond(k, Ok(srvOrders))
    /\ UNCHANGED <<tg, products, cart, user, orders, loading, nextOp, lastOutcome, srv>>

SrvGetUserOrders(k) ==
    /\ Pending(k) /\ ops[k].phase = "getUserOrders"
    /\ Respond(k, Ok(SrvUserOrders(ops[k].user.id)))
    /\ UNCHANGED <<tg, products, cart, user, orders, loading, nextOp, lastOutcome, srv>>

SrvCreateOrder(k) ==
    /\ Pending(k) /\ ops[k].phase = "createOrder"
    /\ Len(srvOrders) < MaxOrders
    /\ Respond(k, Ok([id |-> Len(srvOrders) + 1]))
    /\ srvOrders' = <<SrvCreatedOrder(ops[k].user.id, ops[k].cart, ops[k].total)>> \o srvOrders
    /\ UNCHANGED <<tg, products, cart, user, orders, loading, nextOp, lastOutcome,
                   srvProducts, srvNextProductId>>

SrvUpdateOrderStatus(k) ==
    /\ Pending(k) /\ ops[k].phase = "updateOrderStatus"
    /\ Respond(k, Ok(TRUE))
    /\ srvOrders' = SrvUpdateStatus(ops[k].targetId, StatusFor(ops[k].approved))
    /\ UNCHANGED <<tg, products, cart, user, orders, loading, nextOp, lastOutcome,
                   srvProducts, srvNextProductId>>

\* ------------------------------------------------------------------ Next
OpIds == 0..MaxOps

Next ==
    \/ InitDev
    \/ InitGuest
    \/ InitHost
    \/ \E k \in OpIds : InitUserOk(k)
    \/ \E k \in OpIds : InitProductsOk(k)
    \/ \E k \in OpIds : InitFailed(k)
    \/ \E k \in OpIds : InitOrdersDone(k)
    \/ \E p \in Shelf : addToCart(p)
    \/ \E p \in Shelf : removeFromCart(p.id)
    \/ clearCart
    \/ addProduct(Submitted)
    \/ \E n \in 1..MaxProductId : removeProduct(ToStr(n))
    \/ refreshOrders
    \/ placeOrder
    \/ \E id \in ProcessTargets, approved \in BOOLEAN : processOrder(id, approved)
    \/ \E k \in OpIds : AddProductOk(k)
    \/ \E k \in OpIds : RemoveProductOk(k)
    \/ \E k \in OpIds : MutationFailed(k)
    \/ \E k \in OpIds : PlaceOrderCreated(k)
    \/ \E k \in OpIds : ProcessOrderUpdated(k)
    \/ \E k \in OpIds : RefreshDone(k)
    \/ \E k \in OpIds : SrvReject(k)
    \/ \E k \in OpIds : SrvGetOrCreateUser(k)
    \/ \E k \in OpIds : SrvGetProducts(k)
    \/ \E k \in OpIds : SrvAddProduct(k)
    \/ \E k \in OpIds : SrvDeleteProduct(k)
    \/ \E k \in OpIds : SrvGetAllOrders(k)
    \/ \E k \in OpIds : SrvGetUserOrders(k)
    \/ \E k \in OpIds : SrvCreateOrder(k)
    \/ \E k \in OpIds : SrvUpdateOrderStatus(k)

Spec == Init /\ [][Next]_vars

\* ------------------------------------------------------------ scenarios
\* Spec is too large to enumerate; the scenarios below run the bootstrap and
\* the authority in full and drive a subset of the store's operations.

\* the bootstrap and the calls it issues
Boot ==
    \/ InitDev
    \/ InitGuest
    \/ InitHost
    \/ \E k \in OpIds : InitUserOk(k)
    \/ \E k \in OpIds : InitProductsOk(k)
    \/ \E k \in OpIds : InitFailed(k)
    \/ \E k \in OpIds : InitOrdersDone(k)
    \/ \E k \in OpIds : SrvReject(k)
    \/ \E k \in OpIds : SrvGetOrCreateUser(k)
    \/ \E k \in OpIds : SrvGetProducts(k)
    \/ \E k \in OpIds : SrvGetAllOrders(k)
    \/ \E k \in OpIds : SrvGetUserOrders(k)

\* the cart and placeOrder
NextCart ==
    \/ Boot
    \/ \E p \in Shelf : addToCart(p)
    \/ \E p \in Shelf : removeFromCart(p.id)
    \/ clearCart
    \/ placeOrder
    \/ \E k \in OpIds : MutationFailed(k)
    \/ \E k \in OpIds : PlaceOrderCreated(k)
    \/ \E k \in OpIds : RefreshDone(k)
    \/ \E k \in OpIds : SrvCreateOrder(k)

SpecCart == Init /\ [][NextCart]_vars

\* the catalog: addProduct, removeProduct and processOrder
NextCatalog ==
    \/ Boot
    \/ addProduct(Submitted)
    \/ \E n \in 1..MaxProductId : removeProduct(ToStr(n))
    \/ \E id \in ProcessTargets, approved \in BOOLEAN : processOrder(id, approved)
    \/ \E k \in OpIds : AddProductOk(k)
    \/ \E k \in OpIds : RemoveProductOk(k)
    \/ \E k \in OpIds : MutationFailed(k)
    \/ \E k \in OpIds : ProcessOrderUpdated(k)
    \/ \E k \in OpIds : RefreshDone(k)
    \/ \E k \in OpIds : SrvAddProduct(k)
    \/ \E k \in OpIds : SrvDeleteProduct(k)
    \/ \E k \in OpIds : SrvUpdateOrderStatus(k)

SpecCatalog == Init /\ [][NextCatalog]_vars

\* the orders: placeOrder (of the featured product), processOrder, refreshOrders
NextOrders ==
    \/ Boot
    \/ addToCart(Featured)
    \/ refreshOrders
    \/ placeOrder
    \/ \E id \in ProcessTargets, approved \in BOOLEAN : processOrder(id, approved)
    \/ \E k \in OpIds : MutationFailed(k)
    \/ \E k \in OpIds : PlaceOrderCreated(k)
    \/ \E k \in OpIds : ProcessOrderUpdated(k)
    \/ \E k \in OpIds : RefreshDone(k)
    \/ \E k \in OpIds : SrvCreateOrder(k)
    \/ \E k \in OpIds : SrvUpdateOrderStatus(k)

SpecOrders == Init /\ [][NextOrders]_vars

\* the five synchronized operations side by side: addProduct, removeProduct
\* (of the featured product), placeOrder, processOrder and refreshOrders,
\* with the cart operations on the featured product between their steps
NextSync ==
    \/ Boot
    \/ addToCart(Featured)
    \/ removeFromCart(Featured.id)
    \/ clearCart
    \/ addProduct(Submitted)
    \/ removeProduct(Featured.id)
    \/ placeOrder
    \/ \E id \in ProcessTargets, approved \in BOOLEAN : processOrder(id, approved)
    \/ refreshOrders
    \/ \E k \in OpIds : AddProductOk(k)
    \/ \E k \in OpIds : RemoveProductOk(k)
    \/ \E k \in OpIds : MutationFailed(k)
    \/ \E k \in OpIds : PlaceOrderCreated(k)
    \/ \E k \in OpIds : ProcessOrderUpdated(k)
    \/ \E k \in OpIds : RefreshDone(k)
    \/ \E k \in OpIds : SrvAddProduct(k)
    \/ \E k \in OpIds : SrvDeleteProduct(k)
    \/ \E k \in OpIds : SrvCreateOrder(k)
    \/ \E k \in OpIds : SrvUpdateOrderStatus(k)

SpecSync == Init /\ [][NextSync]_vars


\* the orders when every Gateway call resolves successfully: the bootstrap,
\* placeOrder, processOrder and refreshOrders with no rejected call
NextSettled ==
    \/ InitDev
    \/ InitGuest
    \/ InitHost
    \/ \E k \in OpIds : InitUserOk(k)
    \/ \E k \in OpIds : InitProductsOk(k)
    \/ \E k \in OpIds : InitOrdersDone(k)
    \/ addToCart(Featured)
    \/ refreshOrders
    \/ placeOrder
    \/ \E id \in ProcessTargets, approved \in BOOLEAN : processOrder(id, approved)
    \/ \E k \in OpIds : PlaceOrderCreated(k)
    \/ \E k \in OpIds : ProcessOrderUpdated(k)
    \/ \E k \in OpIds : RefreshDone(k)
    \/ \E k \in OpIds : SrvGetOrCreateUser(k)
    \/ \E k \in OpIds : SrvGetProducts(k)
    \/ \E k \in OpIds : SrvGetAllOrders(k)
    \/ \E k \in OpIds : SrvGetUserOrders(k)
    \/ \E k \in OpIds : SrvCreateOrder(k)
    \/ \E k \in OpIds : SrvUpdateOrderStatus(k)

SpecSettled == Init /\ [][NextSettled]_vars


\* the bootstrap with refreshOrders calls beside it, under the scheduling the
\* runtime gives: the effect runs, every issued call is answered (with
\* success or failure), and every answered call's continuation runs
NextLive ==
    \/ Boot
    \/ refreshOrders
    \/ \E k \in OpIds : RefreshDone(k)

Answer(k) ==
    \/ SrvReject(k)
    \/ SrvGetOrCreateUser(k)
    \/ SrvGetProducts(k)
    \/ SrvGetAllOrders(k)
    \/ SrvGetUserOrders(k)

Resume(k) ==
    \/ InitUserOk(k)
    \/ InitProductsOk(k)
    \/ InitFailed(k)
    \/ InitOrdersDone(k)
    \/ RefreshDone(k)

SpecLive ==
    /\ Init
    /\ [][NextLive]_vars
    /\ WF_vars(InitDev \/ InitGuest \/ InitHost)
    /\ \A k \in OpIds : WF_vars(Answer(k)) /\ WF_vars(Resume(k))

\* ================================================================ claims
\* the response to the call operation k awaits is applied in this step
Delivered(k) ==
    /\ k \in DOMAIN ops
    /\ ops[k].resp /= NULL
    /\ (k \in DOMAIN ops' => ops'[k] /= ops[k])

\* every other suspended operation is as it was, and none was started
OthersUntouched(k) ==
    /\ DOMAIN ops' \subseteq DOMAIN ops
    /\ \A j \in DOMAIN ops \ {k} : j \in DOMAIN ops' /\ ops'[j] = ops[j]

\* the operation invoked in this step was suspended on a Gateway call
Invoked(kind) ==
    /\ nextOp' = nextOp + 1
    /\ nextOp \in DOMAIN ops'
    /\ ops'[nextOp].kind = kind

\* sum of price * quantity, from the head of the cart
RECURSIVE SumOfLines(_)
SumOfLines(c) ==
    IF c = <<>> THEN 0 ELSE Head(c).price * Head(c).quantity + SumOfLines(Tail(c))

\* total quantity the cart holds of a product
RECURSIVE QuantityOf(_, _)
QuantityOf(c, id) ==
    IF c = <<>> THEN 0
    ELSE (IF Head(c).id = id THEN Head(c).quantity ELSE 0) + QuantityOf(Tail(c), id)

CartWellFormed ==
    /\ \A i \in 1..Len(cart) : cart[i].quantity >= 1
    /\ \A i, j \in 1..Len(cart) : cart[i].id = cart[j].id => i = j

AddToCartIncrements ==
    \A p \in Shelf :
        (addToCart(p) /\ \E i \in 1..Len(cart) : cart[i].id = p.id) =>
            /\ Len(cart') = Len(cart)
            /\ \A i \in 1..Len(cart) : cart'[i].id = cart[i].id
            /\ \A q \in Shelf :
                  QuantityOf(cart', q.id) =
                      QuantityOf(cart, q.id) + (IF q.id = p.id THEN 1 ELSE 0)

\* C1: under every interleaving of addToCart, removeFromCart, clearCart and
\* placeOrder with the Gateway responses, every cart entry has quantity >= 1
\* and the cart holds at most one entry per product identity; addToCart of a
\* product already in the cart adds one to that entry's quantity and adds no
\* second entry.
C1_CartEntries == []CartWellFormed /\ [][AddToCartIncrements]_vars

\* a cart of two products, one of them added twice
C1_Witness ==
    /\ Len(cart) = 2
    /\ \E i \in 1..2 : cart[i].quantity = 2
    /\ nextOp > 1

\* C2: when the create-order call of a placeOrder succeeded, applying the
\* response empties the cart and puts at the head of the order list an order
\* with the authority's id, status PENDING, the cart entries of the time of
\* the call as items and the sum of price * quantity over them as total; the
\* orders listed before follow it unchanged.  (The call captured the cart and
\* the total when placeOrder was invoked.)
C2_PlaceOrderApplied ==
    [][/\ Invoked("placeOrder") =>
            /\ ops'[nextOp].cart = cart
            /\ ops'[nextOp].total = SumOfLines(cart)
            /\ user /= NULL /\ cart /= <<>>
       /\ \A k \in DOMAIN ops :
            (/\ Delivered(k)
             /\ ops[k].kind = "placeOrder" /\ ops[k].phase = "createOrder"
             /\ ops[k].resp.ok) =>
                /\ cart' = <<>>
                /\ Len(orders') = Len(orders) + 1
                /\ orders'[1].id = ToStr(ops[k].resp.body.id)
                /\ orders'[1].status = "PENDING"
                /\ orders'[1].items = ops[k].cart
                /\ orders'[1].totalAmount = SumOfLines(ops[k].cart)
                /\ Tail(orders') = orders
                /\ products' = products]_vars

\* the new order of two lines is at the head of a list that held an order,
\* and the follow-up refresh has not been answered
C2_Witness ==
    \E k \in DOMAIN ops :
        /\ ops[k].kind = "placeOrder" /\ IsListCall(ops[k].phase) /\ ops[k].resp = NULL
        /\ cart = <<>>
        /\ Len(orders) >= 2
        /\ orders[1].status = "PENDING"
        /\ Len(orders[1].items) = 2
        /\ orders[1].totalAmount = 25

\* C3: placeOrder invoked with an empty cart or without a user issues no
\* Gateway call, leaves products, orders and cart unchanged and returns
\* normally.
C3_PlaceOrderNoOp ==
    [][(placeOrder /\ (user = NULL \/ cart = <<>>)) =>
            /\ ops' = ops
            /\ UNCHANGED <<tg, products, orders, cart>>
            /\ lastOutcome' = Outcome("placeOrder", "returned")]_vars

\* placeOrder returned while no user was set and the cart held an entry
C3_Witness ==
    /\ user = NULL
    /\ cart /= <<>>
    /\ lastOutcome = Outcome("placeOrder", "returned")

\* api.createOrder's request body
CreateOrderRequest(o) == [user_id |-> o.user.id, items |-> o.cart, total_amount |-> o.total]

\* C4: when the create-order call of a placeOrder failed, cart, order list and
\* catalog stay as they are, no order refresh is issued and the failure is
\* thrown to the caller; a placeOrder that follows sends the cart it finds
\* (the same snapshot and total when no cart operation intervened).
C4_PlaceOrderFailure ==
    [][/\ \A k \in DOMAIN ops :
            (/\ Delivered(k)
             /\ ops[k].kind = "placeOrder" /\ ops[k].phase = "createOrder"
             /\ ~ops[k].resp.ok) =>
                /\ UNCHANGED <<tg, products, orders, cart>>
                /\ k \notin DOMAIN ops'
                /\ OthersUntouched(k)
                /\ lastOutcome' = Outcome("placeOrder", "thrown")
       /\ (Invoked("placeOrder") /\ lastOutcome = Outcome("placeOrder", "thrown")) =>
                CreateOrderRequest(ops'[nextOp]) =
                    [user_id |-> user.id, items |-> cart, total_amount |-> SumOfLines(cart)]]_vars

\* a placeOrder failed, the cart kept its entries and the retry is in flight
C4_Witness ==
    /\ lastOutcome = Outcome("placeOrder", "thrown")
    /\ cart /= <<>>
    /\ \E k \in DOMAIN ops :
          /\ ops[k].kind = "placeOrder" /\ ops[k].phase = "createOrder"
          /\ ops[k].cart = cart
    /\ Cardinality(DOMAIN ops) = 1

\* `after` is `before` without the entries whose id is in `ids`, in order
RECURSIVE IsWithoutIds(_, _, _)
IsWithoutIds(before, after, ids) ==
    IF before = <<>> THEN after = <<>>
    ELSE IF Head(before).id \in ids THEN IsWithoutIds(Tail(before), after, ids)
    ELSE /\ after /= <<>>
         /\ Head(after) = Head(before)
         /\ IsWithoutIds(Tail(before), Tail(after), ids)

\* the product ids in the item snapshots of the listed orders with this id
SnapshotIds(orderId) ==
    {it.id : it \in UNION {Range(orders[i].items) :
                              i \in {n \in 1..Len(orders) : orders[n].id = orderId}}}

ProcessOrderSucceeded(k) ==
    /\ Delivered(k)
    /\ ops[k].kind = "processOrder" /\ ops[k].phase = "updateOrderStatus"
    /\ ops[k].resp.ok

\* C5: when the update-order-status call of processOrder(orderId, approved)
\* succeeded and the order is listed: approved = true removes from the catalog
\* exactly the products of the order's item snapshot (the others stay, in
\* order) and the order becomes CONFIRMED; approved = false leaves the catalog
\* unchanged and the order becomes CANCELED; no other order changes, and the
\* order's other fields do not change.
C5_ProcessOrderApplied ==
    [][\A k \in DOMAIN ops :
        (ProcessOrderSucceeded(k) /\ \E i \in 1..Len(orders) : orders[i].id = ops[k].targetId) =>
            /\ Len(orders') = Len(orders)
            /\ \A i \in 1..Len(orders) :
                  IF orders[i].id = ops[k].targetId
                  THEN /\ orders'[i].status = (IF ops[k].approved THEN "CONFIRMED" ELSE "CANCELED")
                       /\ [orders'[i] EXCEPT !.status = orders[i].status] = orders[i]
                  ELSE orders'[i] = orders[i]
            /\ IF ops[k].approved
               THEN IsWithoutIds(products, products', SnapshotIds(ops[k].targetId))
               ELSE products' = products
            /\ cart' = cart]_vars

\* an order with an item was confirmed, its product left the catalog, and the
\* follow-up refresh has not been answered
C5_Witness ==
    \E k \in DOMAIN ops :
        /\ ops[k].kind = "processOrder" /\ IsListCall(ops[k].phase) /\ ops[k].resp = NULL
        /\ ops[k].approved
        /\ \E i \in 1..Len(orders) :
              /\ orders[i].id = ops[k].targetId
              /\ orders[i].status = "CONFIRMED"
              /\ orders[i].items /= <<>>
        /\ Len(orders) = 2
        /\ Len(products) = 1

\* C6: when the Gateway mutation call of addProduct, removeProduct or
\* processOrder failed, products, orders and cart stay as they are, no order
\* refresh is issued and the failure is thrown to the caller.
C6_MutationFailure ==
    [][\A k \in DOMAIN ops :
        (/\ Delivered(k)
         /\ ops[k].kind \in {"addProduct", "removeProduct", "processOrder"}
         /\ ops[k].phase \in {"addProduct", "deleteProduct", "updateOrderStatus"}
         /\ ~ops[k].resp.ok) =>
            /\ UNCHANGED <<tg, products, orders, cart>>
            /\ k \notin DOMAIN ops'
            /\ OthersUntouched(k)
            /\ lastOutcome' = Outcome(ops[k].kind, "thrown")]_vars

\* a removeProduct threw with the catalog loaded, and a processOrder's failed
\* call is about to be delivered
C6_Witness ==
    /\ lastOutcome = Outcome("removeProduct", "thrown")
    /\ Len(products) = 2
    /\ \E k \in DOMAIN ops :
          /\ ops[k].kind = "processOrder" /\ ops[k].phase = "updateOrderStatus"
          /\ ops[k].resp = Fail

\* C7: when addProduct's create-product call succeeded, one entry is added to
\* the catalog, at its head, with the id of the response (not the id the
\* submitted product carried), and the entries held before follow unchanged;
\* when removeProduct's delete-product call succeeded, exactly the entries
\* with that id are removed and the others stay in order.
C7_CatalogApplied ==
    [][\A k \in DOMAIN ops :
        /\ (Delivered(k) /\ ops[k].kind = "addProduct" /\ ops[k].resp.ok) =>
                /\ Len(products') = Len(products) + 1
                /\ products'[1].id = ToStr(ops[k].resp.body.id)
                /\ products'[1].id /= ops[k].product.id
                /\ Tail(products') = products
                /\ UNCHANGED <<tg, orders, cart>>
        /\ (Delivered(k) /\ ops[k].kind = "removeProduct" /\ ops[k].resp.ok) =>
                /\ IsWithoutIds(products, products', {ops[k].targetId})
                /\ UNCHANGED <<tg, orders, cart>>]_vars

\* the created product heads the loaded catalog after another was removed
C7_Witness ==
    /\ lastOutcome = Outcome("addProduct", "returned")
    /\ Len(products) = 2
    /\ products[1].id = ToStr(3)
    /\ nextOp = 3

\* the authority's records as the order list shows them, field by field
Shown(records) ==
    [i \in 1..Len(records) |->
        [id          |-> ToStr(records[i].id),
         userId      |-> IF records[i].username = "" THEN "unknown" ELSE records[i].username,
         username    |-> IF records[i].username = "" THEN "unknown" ELSE records[i].username,
         items       |-> IF records[i].items = {} THEN <<>>
                         ELSE CHOOSE x \in records[i].items : TRUE,
         totalAmount |-> records[i].total_amount,
         status      |-> records[i].status]]

\* the records in the scope of a user: all for an admin, else the user's own
ScopeOf(records, u) ==
    IF u.isAdmin THEN records ELSE SelectSeq(records, LAMBDA r : r.user_id = u.id)

ViewOf(records, u) == Shown(ScopeOf(records, u))

\* C8: refreshOrders issues list-all-orders for an admin and list-user-orders
\* with the user's id otherwise (the authority answers with the records in
\* that scope); when the call succeeded the order list is replaced by the
\* normalised response, whatever it held before, so a list that already
\* equals the normalised response is left with the same content by a second
\* refresh.
C8_RefreshReplaces ==
    [][/\ Invoked("refreshOrders") =>
            /\ user /= NULL
            /\ ops'[nextOp].user = user
            /\ ops'[nextOp].phase = (IF user.isAdmin THEN "getAllOrders" ELSE "getUserOrders")
       /\ \A k \in DOMAIN ops :
            /\ (Pending(k) /\ ops[k].kind = "refreshOrders" /\ ops'[k].resp /= NULL
                    /\ ops'[k].resp.ok) =>
                    ops'[k].resp.body = ScopeOf(srvOrders, ops[k].user)
            /\ (Delivered(k) /\ ops[k].kind = "refreshOrders" /\ ops[k].resp.ok) =>
                    /\ orders' = Shown(ops[k].resp.body)
                    /\ (orders = Shown(ops[k].resp.body) => orders' = orders)
                    /\ UNCHANGED <<tg, products, cart>>]_vars

\* a refresh of the admin replaced a list that held a locally built order by
\* the authority's three records, one of them without a username
C8_Witness ==
    /\ lastOutcome = Outcome("refreshOrders", "returned")
    /\ user /= NULL /\ user.isAdmin
    /\ Len(orders) = 3
    /\ \E i \in 1..Len(orders) : orders[i].username = "unknown"
    /\ orders = ViewOf(srvOrders, user)

\* C9: when the list-orders call of an order refresh failed, order list, cart
\* and catalog stay as they are and nothing is thrown: refreshOrders, and a
\* placeOrder or processOrder whose own call had succeeded, return normally
\* with the local mutation they made still in place.
C9_RefreshFailure ==
    [][\A k \in DOMAIN ops :
        (/\ Delivered(k)
         /\ ops[k].kind \in {"refreshOrders", "placeOrder", "processOrder"}
         /\ IsListCall(ops[k].phase)
         /\ ~ops[k].resp.ok) =>
            /\ UNCHANGED <<tg, products, orders, cart>>
            /\ k \notin DOMAIN ops'
            /\ OthersUntouched(k)
            /\ lastOutcome' = Outcome(ops[k].kind, "returned")]_vars

\* a placeOrder of the guest returned with its locally built order still at
\* the head of the list and the cart empty: its refresh had failed
C9_Witness ==
    /\ lastOutcome = Outcome("placeOrder", "returned")
    /\ cart = <<>>
    /\ orders /= <<>>
    /\ orders[1].username = "guest_user"
    /\ orders[1].status = "PENDING"
    /\ ops = NoOps

\* C10: on every bootstrap path, when every issued Gateway call is answered,
\* loading becomes false; a user is set whenever loading is false; and loading
\* never becomes true again.
C10_LoadingEnds ==
    /\ <>(~loading)
    /\ [](~loading => user /= NULL)
    /\ [][~loading => ~loading']_vars

\* the bootstrap of the admin ended with catalog and orders loaded
C10_Witness ==
    /\ ~loading
    /\ user /= NULL /\ user.isAdmin
    /\ Len(products) = 2
    /\ Len(orders) = 2

\* the bootstrap with a host identity ends in this step, on the answer to k
BootEnds(k) ==
    /\ Delivered(k)
    /\ ops[k].kind = "initializeApp"
    /\ loading /\ ~loading'

\* C11 as stated: when a step of the chain get-or-create-user, list-products,
\* order-list load failed, the user at the end of the bootstrap is the guest
\* user, and it is the authority's user only when all three succeeded.
C11_AnyFailureGivesGuest ==
    [][\A k \in DOMAIN ops :
        BootEnds(k) =>
            /\ ~ops[k].resp.ok => user' = GuestUser
            /\ user' /= GuestUser => ops[k].resp.ok]_vars

Terminal == {"CONFIRMED", "CANCELED"}

\* C12: once the status of an order of the local list is CONFIRMED or
\* CANCELED, no step changes it to a different status (the authority leaves
\* the stored status of a terminal order as it is).
C12_TerminalStatusStays ==
    [][\A i \in DOMAIN orders : \A j \in DOMAIN orders' :
        (orders[i].status \in Terminal /\ orders'[j].id = orders[i].id)
            => orders'[j].status = orders[i].status]_vars

SyncKinds == {"addProduct", "removeProduct", "placeOrder", "processOrder", "refreshOrders"}

\* operation k is suspended on its first Gateway call
OnFirstCall(k) ==
    /\ k \in DOMAIN ops
    /\ ops[k].kind \in SyncKinds
    /\ \/ ops[k].kind = "addProduct" /\ ops[k].phase = "addProduct"
       \/ ops[k].kind = "removeProduct" /\ ops[k].phase = "deleteProduct"
       \/ ops[k].kind = "placeOrder" /\ ops[k].phase = "createOrder"
       \/ ops[k].kind = "processOrder" /\ ops[k].phase = "updateOrderStatus"
       \/ ops[k].kind = "refreshOrders" /\ IsListCall(ops[k].phase)

\* C13: a synchronized operation changes none of products, orders and cart
\* when it is invoked, nor while its first Gateway call is handled, nor when
\* that call's failure is delivered; products and orders change only in a
\* step that delivers a successful response, and so does the cart in every
\* step that is not one of the synchronous cart operations.
C13_MutationAfterResponse ==
    [][/\ (Mounted /\ nextOp' /= nextOp) => client' = client
       /\ \A k \in DOMAIN ops :
            /\ (OnFirstCall(k) /\ ops[k].resp = NULL /\ k \in DOMAIN ops'
                    /\ ops'[k] /= ops[k])
                => /\ client' = client
                   /\ ops'[k] = [ops[k] EXCEPT !.resp = ops'[k].resp]
                   /\ ops'[k].resp /= NULL
            /\ (OnFirstCall(k) /\ Delivered(k) /\ ~ops[k].resp.ok)
                => client' = client
       /\ (client' /= client /\ (ops' /= ops \/ <<products, orders>>' /= <<products, orders>>))
            => \E k \in DOMAIN ops : Delivered(k) /\ ops[k].resp.ok]_vars

\* the authority created the submitted product and answered, the answer is
\* not yet delivered, and the local catalog is still the loaded one
C13_Witness ==
    \E k \in DOMAIN ops :
        /\ ops[k].kind = "addProduct"
        /\ ops[k].resp /= NULL /\ ops[k].resp.ok
        /\ Len(srvProducts) = 3
        /\ Len(products) = 2

\* the mutation call of placeOrder or processOrder k succeeded and its
\* response is applied in this step
OrderMutationSucceeded(k) ==
    /\ Delivered(k)
    /\ ops[k].kind \in {"placeOrder", "processOrder"}
    /\ ops[k].phase \in {"createOrder", "updateOrderStatus"}
    /\ ops[k].resp.ok

\* C14 as stated: every placeOrder and processOrder whose mutation call
\* succeeded stays suspended, after its local mutation, on one order-list
\* call scoped to the current identity, whatever approved is and also when it
\* was invoked before a user was set.
C14_AlwaysListsOrders ==
    [][\A k \in DOMAIN ops :
        OrderMutationSucceeded(k) =>
            /\ k \in DOMAIN ops'
            /\ IsListCall(ops'[k].phase)
            /\ ops'[k].resp = NULL
            /\ user' /= NULL
            /\ ops'[k].phase = ListCall(user')
            /\ ops'[k].user.id = user'.id]_vars

\* C14 amended: every placeOrder and processOrder whose mutation call
\* succeeded and that was invoked while a user was set issues, after its local
\* mutation and before completing, one order-list call scoped to the user
\* that was live at its invocation (all orders for an admin, that user's own
\* otherwise), for approved = true and approved = false; a processOrder
\* invoked while no user was set issues none and returns normally.
C14_ListsOrdersForCapturedUser ==
    [][/\ \A kind \in {"placeOrder", "processOrder"} :
            Invoked(kind) => ops'[nextOp].user = user
       /\ \A k \in DOMAIN ops :
            /\ OrderMutationSucceeded(k) =>
                IF ops[k].user /= NULL
                THEN /\ k \in DOMAIN ops'
                     /\ ops'[k].phase =
                            (IF ops[k].user.isAdmin THEN "getAllOrders" ELSE "getUserOrders")
                     /\ ops'[k].user = ops[k].user
                     /\ ops'[k].resp = NULL
                     /\ orders' /= orders \/ ops[k].kind = "processOrder"
                ELSE /\ k \notin DOMAIN ops'
                     /\ ops[k].kind = "processOrder"
                     /\ lastOutcome' = Outcome("processOrder", "returned")
            /\ (Delivered(k) /\ ops[k].kind \in {"placeOrder", "processOrder"}
                    /\ IsListCall(ops[k].phase))
                => k \notin DOMAIN ops']_vars

\* a cancelling processOrder set the local status and waits for the answer
\* to its list call
C14_Witness ==
    \E k \in DOMAIN ops :
        /\ ops[k].kind = "processOrder"
        /\ ~ops[k].approved
        /\ IsListCall(ops[k].phase)
        /\ ops[k].resp = NULL
        /\ \E i \in DOMAIN orders :
              orders[i].id = ops[k].targetId /\ orders[i].status = "CANCELED"

\* C15: when every Gateway call resolved successfully and every response is
\* delivered (no operation is suspended, so no placeOrder or processOrder is
\* under way and the authority's records are at rest), the local order list
\* is the authority's order list scoped to the user: all orders for an
\* admin, the user's own otherwise.
C15_OrdersConsistentAtRest ==
    (Mounted /\ ops = NoOps /\ user /= NULL /\ ~loading)
        => orders = ViewOf(srvOrders, user)

\* a step of addToCart, removeFromCart or clearCart
CartStep == ops' = ops /\ nextOp' = nextOp /\ cart' /= cart

\* a step of addProduct, removeProduct or processOrder itself: its
\* invocation, or the delivery of the response to its mutation call
FrameStep ==
    \/ \E kind \in {"addProduct", "removeProduct", "processOrder"} : Invoked(kind)
    \/ \E k \in DOMAIN ops :
          /\ Delivered(k)
          /\ ops[k].kind \in {"addProduct", "removeProduct", "processOrder"}
          /\ OnFirstCall(k)

\* an order's item snapshot names the product id, and the catalog does not
SnapshotKept(id) ==
    /\ \E i \in DOMAIN orders : \E j \in DOMAIN orders[i].items :
          orders[i].items[j].id = id
    /\ \A n \in DOMAIN products : products[n].id /= id

\* C16: the cart operations, addProduct, removeProduct and processOrder
\* leave the order list's length and every order's id, items and totalAmount
\* as they were; the cart operations, addProduct and removeProduct leave the
\* orders as a whole, and a successful processOrder changes only the status of
\* the orders with the targeted id, so a product taken out of the catalog
\* stays in the item snapshots that name it.
C16_OrderSnapshotsFramed ==
    [][/\ (CartStep \/ FrameStep) =>
            /\ Len(orders') = Len(orders)
            /\ \A i \in DOMAIN orders :
                  /\ orders'[i].id = orders[i].id
                  /\ orders'[i].items = orders[i].items
                  /\ orders'[i].totalAmount = orders[i].totalAmount
                  /\ orders'[i].userId = orders[i].userId
                  /\ orders'[i].username = orders[i].username
       /\ \A k \in DOMAIN ops :
            (Delivered(k) /\ OnFirstCall(k)) =>
                CASE ops[k].kind \in {"addProduct", "removeProduct"} -> orders' = orders
                  [] ops[k].kind = "processOrder" ->
                        \A i \in DOMAIN orders :
                            \/ orders'[i] = orders[i]
                            \/ /\ ops[k].resp.ok
                               /\ orders[i].id = ops[k].targetId
                               /\ orders'[i].status = StatusFor(ops[k].approved)
                  [] OTHER -> TRUE
       /\ CartStep => orders' = orders
       /\ \A id \in {Featured.id} :
            (SnapshotKept(id) /\ (CartStep \/ FrameStep)) => SnapshotKept(id)']_vars

\* the order of the featured product is confirmed, the product is out of the
\* catalog and still in the order's item snapshot, with the total it had
C16_Witness ==
    /\ SnapshotKept(Featured.id)
    /\ \E i \in DOMAIN orders :
          /\ orders[i].status = "CONFIRMED"
          /\ orders[i].items = <<[id |-> Featured.id, price |-> 10, quantity |-> 1]>>
          /\ orders[i].totalAmount = 10

\* C17: no two entries of the product catalog have the same id.
C17_CatalogIdsDistinct ==
    \A i, j \in DOMAIN products : products[i].id = products[j].id => i = j

\* C18: when placeOrder succeeds, the cart that is cleared holds exactly the
\* entries, with their quantities, that were sent in the create-order call
\* and that the prepended order shows.
C18_ClearedCartWasSent ==
    [][\A k \in DOMAIN ops :
        (Delivered(k) /\ ops[k].kind = "placeOrder" /\ ops[k].phase = "createOrder"
            /\ ops[k].resp.ok)
        => /\ cart' = <<>>
           /\ cart = ops[k].cart
           /\ cart = Head(orders').items]_vars

\* C19: no two orders of the local order list have the same id.
C19_OrderIdsDistinct ==
    \A i, j \in DOMAIN orders : orders[i].id = orders[j].id => i = j

\* the host environment supplies no identity
NoHostIdentity == tg = NULL \/ tg.user = NULL

\* C20: with no host identity the bootstrap issues no Gateway call, then or
\* later, sets the non-admin fallback user (id 0 when the WebApp is present
\* without a user, id 999 when the WebApp is absent), ends loading and leaves
\* catalog and order list empty; with a host identity the bootstrap starts
\* with get-or-create-user, goes on to list-products only on its success and
\* to the order-list call only on the success of list-products.
C20_BootstrapCalls ==
    [][/\ (nextOp = 0 /\ nextOp' /= 0) =>
            IF NoHostIdentity
            THEN /\ ops' = NoOps
                 /\ user' = [id |-> IF tg = NULL THEN 999 ELSE 0,
                             username |-> IF tg = NULL THEN "dev_user" ELSE "guest_user",
                             isAdmin |-> FALSE]
                 /\ ~loading'
                 /\ products' = <<>> /\ orders' = <<>>
            ELSE /\ DOMAIN ops' = {0}
                 /\ ops'[0].kind = "initializeApp"
                 /\ ops'[0].phase = "getOrCreateUser"
                 /\ ops'[0].user.id = tg.user.id
                 /\ ops'[0].resp = NULL
                 /\ user' = NULL /\ loading'
       /\ \A k \in DOMAIN ops' :
            ops'[k].kind = "initializeApp" => (k = 0 /\ ~NoHostIdentity)
       /\ \A k \in DOMAIN ops :
            (ops[k].kind = "initializeApp" /\ k \in DOMAIN ops'
                /\ ops'[k].phase /= ops[k].phase)
            => /\ ops[k].resp /= NULL /\ ops[k].resp.ok
               /\ \/ ops[k].phase = "getOrCreateUser" /\ ops'[k].phase = "getProducts"
                  \/ ops[k].phase = "getProducts" /\ IsListCall(ops'[k].phase)]_vars

\* the WebApp is absent: the bootstrap ended with the development user, no
\* call issued, catalog and order list empty
C20_Witness ==
    /\ tg = NULL
    /\ nextOp = 1
    /\ ops = NoOps
    /\ ~loading
    /\ user /= NULL /\ user.id = 999 /\ ~user.isAdmin
    /\ products = <<>> /\ orders = <<>>

====
